---- MODULE Spec2Model ----
(***************************************************************************)
(* The line-tracking lexical analyzer of src/compiler/src/lexer.rs.        *)
(*                                                                         *)
(* A Rust String is modelled as the sequence of its chars (Unicode scalar  *)
(* values, as naturals).  Its UTF-8 byte layout is computed from that      *)
(* sequence (len_utf8, len, ByteOffset), because the analyzer compares the *)
(* cursor with the BYTE length (input.len()), reads with a CHAR index      *)
(* (input.chars().nth(position)) and slices with BYTE indices              *)
(* (input[start..position]).                                               *)
(*                                                                         *)
(* One step of the model is one iteration of one of the loops of the       *)
(* analyzer (tokenize, get_next_word, get_next_number) or the compound     *)
(* operator lookahead, so the states inside the helper scans are states of *)
(* the model.                                                              *)
(***************************************************************************)
EXTENDS Integers, Sequences, FiniteSets, TLC

(***************************************************************************)
(* Characters                                                              *)
(***************************************************************************)

\* The ASCII characters ' ' (32) to '_' (95) in code order: Ascii32[i] has code 31 + i.
Ascii32 ==
  << " ", "!", "\"", "#", "$", "%", "&", "'", "(", ")", "*", "+", ",", "-", ".", "/",
     "0", "1", "2", "3", "4", "5", "6", "7", "8", "9", ":", ";", "<", "=", ">", "?",
     "@", "A", "B", "C", "D", "E", "F", "G", "H", "I", "J", "K", "L", "M", "N", "O",
     "P", "Q", "R", "S", "T", "U", "V", "W", "X", "Y", "Z", "[", "\\", "]", "^", "_" >>

\* The ASCII characters 'a' (97) to '~' (126) in code order: Ascii97[i] has code 96 + i.
Ascii97 ==
  << "a", "b", "c", "d", "e", "f", "g", "h", "i", "j", "k", "l", "m", "n", "o",
     "p", "q", "r", "s", "t", "u", "v", "w", "x", "y", "z", "{", "|", "}", "~" >>

\* The code of a character written as a one-character string.
Code(c) ==
  IF \E i \in 1..Len(Ascii32) : Ascii32[i] = c
  THEN 31 + (CHOOSE i \in 1..Len(Ascii32) : Ascii32[i] = c)
  ELSE 96 + (CHOOSE i \in 1..Len(Ascii97) : Ascii97[i] = c)

\* A string literal of the source, written as a tuple of one-character strings.
Str(s) == [i \in 1..Len(s) |-> Code(s[i])]

\* Option<char>::None, the result of chars().nth(n) past the last char.
None == -1

\* char::is_ascii_alphabetic: 'A'..='Z' | 'a'..='z'
is_alpha(c) == c \in 65..90 \/ c \in 97..122

\* char::is_ascii_digit: '0'..='9'
is_digit(c) == c \in 48..57

is_alphanum_letters_only(c) == is_alpha(c)

is_alphanum(c) == is_alpha(c) \/ is_digit(c)

is_whitespace_no_tab(c) == c = 32 \/ c = 10 \/ c = 13

\* c == ' ' || c == '\t' || c == '\n' || c == '\r'
is_whitespace(c) == c = 32 \/ c = 9 \/ c = 10 \/ c = 13

is_operator_basic(c) == c \in {43, 45, 42, 47, 61, 33}

\* "+-*/=!<>".contains(c)
is_operator(c) == c \in {43, 45, 42, 47, 61, 33, 60, 62}

\* "(){};".contains(c)
is_punctuator(c) == c \in {40, 41, 123, 125, 59}

(***************************************************************************)
(* Rust String operations, over the sequence of chars                      *)
(***************************************************************************)

\* char::len_utf8
len_utf8(c) == IF c < 128 THEN 1 ELSE IF c < 2048 THEN 2 ELSE IF c < 65536 THEN 3 ELSE 4

\* The byte offset at which the i-th char (1-based) starts; ByteOffset(s, Len(s)+1)
\* is the byte length.
RECURSIVE ByteOffset(_, _)
ByteOffset(s, i) == IF i <= 1 THEN 0 ELSE ByteOffset(s, i - 1) + len_utf8(s[i - 1])

\* String::len: the length in BYTES.
len(s) == ByteOffset(s, Len(s) + 1)

\* s.chars().nth(n): the n-th CHAR (0-based), None past the end.
nth(s, n) == IF n < Len(s) THEN s[n + 1] ELSE None

\* str::is_char_boundary
is_char_boundary(s, b) == \E i \in 1..(Len(s) + 1) : ByteOffset(s, i) = b

\* &s[a..b] does not panic: a <= b <= len and both on char boundaries.
SliceOk(s, a, b) == a <= b /\ b <= len(s) /\ is_char_boundary(s, a) /\ is_char_boundary(s, b)

\* &s[a..b].to_string(): the chars whose first byte lies in [a, b).
RECURSIVE SliceFrom(_, _, _, _)
SliceFrom(s, a, b, i) ==
  IF i > Len(s) THEN << >>
  ELSE IF a <= ByteOffset(s, i) /\ ByteOffset(s, i) < b
       THEN << s[i] >> \o SliceFrom(s, a, b, i + 1)
       ELSE SliceFrom(s, a, b, i + 1)

Slice(s, a, b) == SliceFrom(s, a, b, 1)

\* str::contains(char)
contains(s, c) == \E i \in 1..Len(s) : s[i] = c

(***************************************************************************)
(* Tokens and the keyword table                                            *)
(***************************************************************************)

TokenType ==
  {"Keyword", "Identifier", "IntegerLiteral", "FloatLiteral", "Operator", "Punctuator",
   "Unknown"}

\* Token::new
Token(token_type, value, ln) == [token_type |-> token_type, value |-> value, line |-> ln]

init_keywords_chaloo ==
  LET words ==
        { Str(<<"h", "i", "n", "d", "s", "a">>),
          Str(<<"a", "s", "h", "a", "r", "i", "a">>),
          Str(<<"a", "g", "a", "r">>),
          Str(<<"p", "h", "i", "r">>),
          Str(<<"l", "e", "k", "i", "n", "a", "g", "a", "r">>),
          Str(<<"j", "a", "b", "t", "k">>),
          Str(<<"n", "i", "k", "l", "o">>),
          Str(<<"w", "a", "p", "s", "i">>),
          Str(<<"i", "r", "s", "h", "a", "a", "d">>),
          Str(<<"c", "h", "a", "l", "o", "o">>) }
  IN [w \in words |-> "Keyword"]

\* init_keywords: the ten insertions into the HashMap, as the resulting map.
init_keywords ==
  LET words ==
        { Str(<<"h", "i", "n", "d", "s", "a">>),
          Str(<<"a", "s", "h", "a", "r", "i", "a">>),
          Str(<<"a", "g", "a", "r">>),
          Str(<<"p", "h", "i", "r">>),
          Str(<<"l", "e", "k", "i", "n", "a", "g", "a", "r">>),
          Str(<<"j", "a", "b", "t", "k">>),
          Str(<<"n", "i", "k", "l", "o">>),
          Str(<<"w", "a", "p", "s", "i">>),
          Str(<<"i", "r", "s", "h", "a", "a", "d">>),
          Str(<<"c", "h", "a", "l", "o", "o", "o">>) }
  IN [w \in words |-> "Keyword"]

\* match self.keywords.get(&word) { Some(t) => t.clone(), None => Identifier }
word_token_type(kw, word) == IF word \in DOMAIN kw THEN kw[word] ELSE "Identifier"

\* if number.contains('.') { FloatLiteral } else { IntegerLiteral }
number_token_type(number) == IF contains(number, 46) THEN "FloatLiteral" ELSE "IntegerLiteral"

(***************************************************************************)
(* The inputs                                                              *)
(***************************************************************************)

\* The longest input of the exhaustive family.
MaxLen == 4

\* The characters of the exhaustive family, one or two of each class of the
\* dispatch: a letter, a digit, '.', the operators '=' and '<', the punctuator
\* ';', the whitespace ' ' and '\n', and the two-byte char U+00E9.
Alphabet == { Code("a"), Code("1"), Code("."), Code("="), Code("<"), Code(";"), 32, 10, 233 }

\* Every string over Alphabet of at most MaxLen chars.
Strings == UNION { [1..n -> Alphabet] : n \in 0..MaxLen }

\* Words and separators: every word, and every two words joined by a separator.
Words ==
  (DOMAIN init_keywords) \cup
  { Str(<<"a", "g", "a", "r", "x">>), Str(<<"A", "g", "a", "r">>), Str(<<"a", "g", "a">>),
    Str(<<"x", "1">>), Str(<<"1", "2">>), Str(<<"2", "0", ".", "5">>), Str(<<"1", "2", ".">>) }

Separators ==
  { << >>, <<32>>, <<10>>, <<9>>, <<13, 10>>, Str(<<"_">>), Str(<<"=">>), Str(<<">", "=">>),
    Str(<<"(">>), Str(<<".">>), <<8364>> }

Phrases == Words \cup { w \o sep \o v : w \in Words, v \in Words, sep \in Separators }

\* The inputs the documentation of the analyzer names.
EndToEnd ==
  Str(<< "h", "i", "n", "d", "s", "a", " ", "x", " ", "=", " ", "1", "0", ";", " ",
         "a", "s", "h", "a", "r", "i", "a", " ", "y", " ", "=", " ", "2", "0", ".", "5", ";", " ",
         "a", "g", "a", "r", " ", "(", "x", " ", ">", " ", "y", ")", " ",
         "{", " ", "n", "i", "k", "l", "o", ";", " ", "}" >>)

Scenarios ==
  { EndToEnd,
    Str(<<"3", ".", "1", "4", ".", "5">>),
    Str(<<"=", "=", "=">>),
    Str(<<"a", "_", "b">>),
    Str(<<"1", "2", "a", "b", "c">>),
    Str(<<"a", "b", "c", "1", "2">>),
    Str(<<" ", " ", "x", " ", " ", " ", "=", " ", " ", "1", " ", " ">>) }

Inputs == Strings \cup Phrases \cup Scenarios

(***************************************************************************)
(* The analyzer                                                            *)
(***************************************************************************)

VARIABLES
  input,        \* LexicalAnalyzer.input
  position,     \* LexicalAnalyzer.position
  line,         \* LexicalAnalyzer.line
  keywords,     \* LexicalAnalyzer.keywords
  tokens,       \* tokenize: let mut tokens
  pc,           \* where the call of tokenize is
  start,        \* get_next_word / get_next_number: let start
  has_decimal,  \* get_next_number: let mut has_decimal
  op,           \* tokenize: let mut op
  iterations,   \* executions of the body of the main while begun in this call
  calls         \* calls of tokenize on this analyzer, the running one included

vars ==
  << input, position, line, keywords, tokens, pc, start, has_decimal, op, iterations, calls >>

\* LexicalAnalyzer::new(source), followed by the entry of tokenize.
Init ==
  /\ input \in Inputs
  /\ position = 0
  /\ line = 1
  /\ keywords = init_keywords
  /\ tokens = << >>
  /\ pc = "tokenize"
  /\ start = 0
  /\ has_decimal = FALSE
  /\ op = << >>
  /\ iterations = 0
  /\ calls = 1

\* let current_char = self.input.chars().nth(self.position).unwrap()
current_char == nth(input, position)

\* The head of the main loop with a character to dispatch on.
AtDispatch == pc = "tokenize" /\ position < len(input) /\ current_char # None

line_after_untracked(c, ln) == ln

line_after_cr(c, ln) == IF c = 10 \/ c = 13 THEN ln + 1 ELSE ln

\* if current_char == '\n' { self.line += 1 }
line_after(c, ln) == IF c = 10 THEN ln + 1 ELSE ln

\* Skip whitespace: count the line, advance, continue.
SkipWhitespace ==
  /\ AtDispatch
  /\ is_whitespace(current_char)
  /\ line' = line_after(current_char, line)
  /\ position' = position + 1
  /\ iterations' = iterations + 1
  /\ UNCHANGED << input, calls, keywords, tokens, pc, start, has_decimal, op >>

\* is_alpha(current_char): enter get_next_word.
BeginWord ==
  /\ AtDispatch
  /\ ~is_whitespace(current_char)
  /\ is_alpha(current_char)
  /\ start' = position
  /\ pc' = "get_next_word"
  /\ iterations' = iterations + 1
  /\ UNCHANGED << input, calls, position, line, keywords, tokens, has_decimal, op >>

\* The condition of the while of get_next_word (its unwrap succeeding).
word_continues(s, p) == p < len(s) /\ nth(s, p) # None /\ is_alphanum(nth(s, p))

\* One iteration of the while of get_next_word.
WordLoop ==
  /\ pc = "get_next_word"
  /\ word_continues(input, position)
  /\ position' = position + 1
  /\ UNCHANGED << input, iterations, calls, line, keywords, tokens, pc, start, has_decimal, op >>

\* The while of get_next_word is over without a panic.
WordLoopExit == pc = "get_next_word" /\ (position >= len(input) \/ (current_char # None /\ ~is_alphanum(current_char)))

\* get_next_word returns the slice; tokenize looks it up and pushes the token.
WordEmit ==
  /\ WordLoopExit
  /\ SliceOk(input, start, position)
  /\ LET word == Slice(input, start, position)
     IN tokens' = Append(tokens, Token(word_token_type(keywords, word), word, line))
  /\ pc' = "tokenize"
  /\ UNCHANGED << input, iterations, calls, position, line, keywords, start, has_decimal, op >>

BeginNumberKeepsDecimal ==
  /\ AtDispatch
  /\ ~is_whitespace(current_char)
  /\ ~is_alpha(current_char)
  /\ is_digit(current_char)
  /\ start' = position
  /\ pc' = "get_next_number"
  /\ iterations' = iterations + 1
  /\ UNCHANGED << input, calls, position, line, keywords, tokens, has_decimal, op >>

\* is_digit(current_char): enter get_next_number.
BeginNumber ==
  /\ AtDispatch
  /\ ~is_whitespace(current_char)
  /\ ~is_alpha(current_char)
  /\ is_digit(current_char)
  /\ start' = position
  /\ has_decimal' = FALSE
  /\ pc' = "get_next_number"
  /\ iterations' = iterations + 1
  /\ UNCHANGED << input, calls, position, line, keywords, tokens, op >>

\* The body of the while of get_next_number reaches self.position += 1.
number_continues(c, dec) == IF c = 46 THEN ~dec ELSE is_digit(c)

\* One iteration of the while of get_next_number.
NumberLoop ==
  /\ pc = "get_next_number"
  /\ position < len(input)
  /\ current_char # None
  /\ number_continues(current_char, has_decimal)
  /\ has_decimal' = (has_decimal \/ current_char = 46)
  /\ position' = position + 1
  /\ UNCHANGED << input, iterations, calls, line, keywords, tokens, pc, start, op >>

\* The while of get_next_number is over (its condition fails, or a break).
NumberLoopExit ==
  /\ pc = "get_next_number"
  /\ (position >= len(input) \/ (current_char # None /\ ~number_continues(current_char, has_decimal)))

\* get_next_number returns the slice; tokenize classifies it and pushes the token.
NumberEmit ==
  /\ NumberLoopExit
  /\ SliceOk(input, start, position)
  /\ LET number == Slice(input, start, position)
     IN tokens' = Append(tokens, Token(number_token_type(number), number, line))
  /\ pc' = "tokenize"
  /\ UNCHANGED << input, iterations, calls, position, line, keywords, start, has_decimal, op >>

\* An operator character: op = current_char.to_string(); self.position += 1.
BeginOperator ==
  /\ AtDispatch
  /\ ~is_whitespace(current_char)
  /\ ~is_alpha(current_char)
  /\ ~is_digit(current_char)
  /\ is_operator(current_char)
  /\ op' = << current_char >>
  /\ position' = position + 1
  /\ pc' = "compound"
  /\ iterations' = iterations + 1
  /\ UNCHANGED << input, calls, line, keywords, tokens, start, has_decimal >>

is_compound_never(next_char) == FALSE

\* if next_char == '=' (the lookahead of the compound operators)
is_compound(next_char) == next_char = 61

op_push_lost(o, next_char) == o

\* op.push(next_char)
op_push(o, next_char) == Append(o, next_char)

\* The lookahead: absorb a following '=', then push the operator.
Compound ==
  /\ pc = "compound"
  /\ IF position < len(input)
     THEN /\ current_char # None
          /\ IF is_compound(current_char)
             THEN /\ op' = op_push(op, current_char)
                  /\ position' = position + 1
             ELSE UNCHANGED << op, position >>
     ELSE UNCHANGED << op, position >>
  /\ tokens' = Append(tokens, Token("Operator", op', line))
  /\ pc' = "tokenize"
  /\ UNCHANGED << input, iterations, calls, line, keywords, start, has_decimal >>

PunctuatorStalls ==
  /\ AtDispatch
  /\ ~is_whitespace(current_char)
  /\ ~is_alpha(current_char)
  /\ ~is_digit(current_char)
  /\ ~is_operator(current_char)
  /\ is_punctuator(current_char)
  /\ tokens' = Append(tokens, Token("Punctuator", << current_char >>, line))
  /\ iterations' = iterations + 1
  /\ UNCHANGED << input, calls, position, line, keywords, pc, start, has_decimal, op >>

\* A punctuator character: push it, advance.
Punctuator ==
  /\ AtDispatch
  /\ ~is_whitespace(current_char)
  /\ ~is_alpha(current_char)
  /\ ~is_digit(current_char)
  /\ ~is_operator(current_char)
  /\ is_punctuator(current_char)
  /\ tokens' = Append(tokens, Token("Punctuator", << current_char >>, line))
  /\ position' = position + 1
  /\ iterations' = iterations + 1
  /\ UNCHANGED << input, calls, line, keywords, pc, start, has_decimal, op >>

UnknownDropped ==
  /\ AtDispatch
  /\ ~is_whitespace(current_char)
  /\ ~is_alpha(current_char)
  /\ ~is_digit(current_char)
  /\ ~is_operator(current_char)
  /\ ~is_punctuator(current_char)
  /\ position' = position + 1
  /\ iterations' = iterations + 1
  /\ UNCHANGED << input, calls, line, keywords, tokens, pc, start, has_decimal, op >>

\* Any other character: push it as Unknown, advance.
Unknown ==
  /\ AtDispatch
  /\ ~is_whitespace(current_char)
  /\ ~is_alpha(current_char)
  /\ ~is_digit(current_char)
  /\ ~is_operator(current_char)
  /\ ~is_punctuator(current_char)
  /\ tokens' = Append(tokens, Token("Unknown", << current_char >>, line))
  /\ position' = position + 1
  /\ iterations' = iterations + 1
  /\ UNCHANGED << input, calls, line, keywords, pc, start, has_decimal, op >>

\* The condition of the main while fails: tokenize returns tokens.
Return ==
  /\ pc = "tokenize"
  /\ position >= len(input)
  /\ pc' = "returned"
  /\ UNCHANGED << input, iterations, calls, position, line, keywords, tokens, start, has_decimal, op >>

\* chars().nth(position) is None while position < input.len(): unwrap panics.
UnwrapPanic ==
  /\ pc \in {"tokenize", "get_next_word", "get_next_number", "compound"}
  /\ position < len(input)
  /\ current_char = None
  /\ pc' = "panicked"
  /\ UNCHANGED << input, iterations, calls, position, line, keywords, tokens, start, has_decimal, op >>

\* input[start..position] with an index that is not a char boundary: panic.
SlicePanic ==
  /\ WordLoopExit \/ NumberLoopExit
  /\ ~SliceOk(input, start, position)
  /\ pc' = "panicked"
  /\ UNCHANGED << input, iterations, calls, position, line, keywords, tokens, start, has_decimal, op >>

Next ==
  \/ SkipWhitespace
  \/ BeginWord
  \/ WordLoop
  \/ WordEmit
  \/ BeginNumber
  \/ NumberLoop
  \/ NumberEmit
  \/ BeginOperator
  \/ Compound
  \/ Punctuator
  \/ Unknown
  \/ Return
  \/ UnwrapPanic
  \/ SlicePanic

Spec == Init /\ [][Next]_vars

\* The analyzer runs to the end of the call: a sequential program takes its
\* next step whenever it has one.
SpecFair == Spec /\ WF_vars(Next)

\* The most calls of tokenize on one analyzer.
MaxCalls == 2

TokenizeAgainRewinds ==
  /\ pc = "returned"
  /\ calls < MaxCalls
  /\ calls' = calls + 1
  /\ tokens' = << >>
  /\ iterations' = 0
  /\ position' = 0
  /\ line' = 1
  /\ pc' = "tokenize"
  /\ UNCHANGED << input, keywords, start, has_decimal, op >>

\* A further call of tokenize on the analyzer: a new, empty tokens; position
\* and line are the fields the call before left.
TokenizeAgain ==
  /\ pc = "returned"
  /\ calls < MaxCalls
  /\ calls' = calls + 1
  /\ tokens' = << >>
  /\ iterations' = 0
  /\ pc' = "tokenize"
  /\ UNCHANGED << input, position, line, keywords, start, has_decimal, op >>

NextCalls == Next \/ TokenizeAgain

\* The analyzer with tokenize called up to MaxCalls times.
SpecCalls == Init /\ [][NextCalls]_vars

(***************************************************************************)
(* tokenize as a function of the input: the result of one call on a new    *)
(* analyzer, computed branch by branch as the loops compute it             *)
(***************************************************************************)

\* The call panicked instead of returning tokens.
Panicked == "panicked"

\* get_next_word from position p: the position behind the while, None when an
\* unwrap panics.
RECURSIVE word_end(_, _)
word_end(s, p) ==
  IF p < len(s)
  THEN IF nth(s, p) = None THEN None
       ELSE IF is_alphanum(nth(s, p)) THEN word_end(s, p + 1) ELSE p
  ELSE p

\* get_next_number from position p with has_decimal = dec: the position behind
\* the while, None when an unwrap panics.
RECURSIVE number_end(_, _, _)
number_end(s, p, dec) ==
  IF p < len(s)
  THEN IF nth(s, p) = None THEN None
       ELSE IF number_continues(nth(s, p), dec)
            THEN number_end(s, p + 1, dec \/ nth(s, p) = 46)
            ELSE p
  ELSE p

\* The main loop of tokenize from position p on line ln with the tokens toks.
RECURSIVE scan(_, _, _, _)
scan(s, p, ln, toks) ==
  IF p >= len(s) THEN toks
  ELSE
    LET c == nth(s, p) IN
    IF c = None THEN Panicked
    ELSE IF is_whitespace(c) THEN scan(s, p + 1, line_after(c, ln), toks)
    ELSE IF is_alpha(c) THEN
      LET e == word_end(s, p) IN
      IF e = None \/ ~SliceOk(s, p, e) THEN Panicked
      ELSE LET word == Slice(s, p, e)
           IN scan(s, e, ln, Append(toks, Token(word_token_type(init_keywords, word), word, ln)))
    ELSE IF is_digit(c) THEN
      LET e == number_end(s, p, FALSE) IN
      IF e = None \/ ~SliceOk(s, p, e) THEN Panicked
      ELSE LET number == Slice(s, p, e)
           IN scan(s, e, ln, Append(toks, Token(number_token_type(number), number, ln)))
    ELSE IF is_operator(c) THEN
      IF p + 1 < len(s)
      THEN IF nth(s, p + 1) = None THEN Panicked
           ELSE IF is_compound(nth(s, p + 1))
                THEN scan(s, p + 2, ln,
                          Append(toks, Token("Operator", op_push(<< c >>, nth(s, p + 1)), ln)))
                ELSE scan(s, p + 1, ln, Append(toks, Token("Operator", << c >>, ln)))
      ELSE scan(s, p + 1, ln, Append(toks, Token("Operator", << c >>, ln)))
    ELSE IF is_punctuator(c) THEN scan(s, p + 1, ln, Append(toks, Token("Punctuator", << c >>, ln)))
    ELSE scan(s, p + 1, ln, Append(toks, Token("Unknown", << c >>, ln)))

\* LexicalAnalyzer::new(s).tokenize()
tokenize(s) == scan(s, 0, 1, << >>)

(***************************************************************************)
(* The analyzer of src/lexer.rs, as a function of the input.  Its helpers   *)
(* is_whitespace, is_alpha, is_digit, is_alphanum, get_next_word and        *)
(* get_next_number and its keyword table are, line for line, those of       *)
(* src/compiler/src/lexer.rs, and are shared; its Token has no line, its    *)
(* operators are + - * / = ! and it has no lookahead.                       *)
(***************************************************************************)

\* Token::new of src/lexer.rs
simple_Token(token_type, value) == [token_type |-> token_type, value |-> value]

\* "+-*/=!".contains(c)
simple_is_operator(c) == c \in {43, 45, 42, 47, 61, 33}

\* The main loop of tokenize of src/lexer.rs from position p with the tokens toks.
RECURSIVE simple_scan(_, _, _)
simple_scan(s, p, toks) ==
  IF p >= len(s) THEN toks
  ELSE
    LET c == nth(s, p) IN
    IF c = None THEN Panicked
    ELSE IF is_whitespace(c) THEN simple_scan(s, p + 1, toks)
    ELSE IF is_alpha(c) THEN
      LET e == word_end(s, p) IN
      IF e = None \/ ~SliceOk(s, p, e) THEN Panicked
      ELSE LET word == Slice(s, p, e)
           IN simple_scan(s, e, Append(toks, simple_Token(word_token_type(init_keywords, word), word)))
    ELSE IF is_digit(c) THEN
      LET e == number_end(s, p, FALSE) IN
      IF e = None \/ ~SliceOk(s, p, e) THEN Panicked
      ELSE LET number == Slice(s, p, e)
           IN simple_scan(s, e, Append(toks, simple_Token(number_token_type(number), number)))
    ELSE IF simple_is_operator(c) THEN
      simple_scan(s, p + 1, Append(toks, simple_Token("Operator", << c >>)))
    ELSE IF is_punctuator(c) THEN
      simple_scan(s, p + 1, Append(toks, simple_Token("Punctuator", << c >>)))
    ELSE simple_scan(s, p + 1, Append(toks, simple_Token("Unknown", << c >>)))

\* LexicalAnalyzer::new(s).tokenize() of src/lexer.rs
simple_tokenize(s) == simple_scan(s, 0, << >>)

TypeOK ==
  /\ iterations \in Nat
  /\ calls \in 1..MaxCalls
  /\ position \in Nat
  /\ line \in Nat
  /\ pc \in {"tokenize", "get_next_word", "get_next_number", "compound", "returned", "panicked"}
  /\ \A i \in 1..Len(tokens) : tokens[i].token_type \in TokenType

(***************************************************************************)
(* The vocabulary of the properties, independent of the analyzer's helpers *)
(***************************************************************************)

\* Every char of s is ASCII.
IsAscii(s) == \A i \in 1..Len(s) : s[i] < 128

\* Space, tab, carriage return, newline.
Whitespace == {32, 9, 13, 10}

Newline == {10}

Letters == (65..90) \cup (97..122)

Digits == 48..57

\* + - * / = ! < >
OperatorChars == { Code("+"), Code("-"), Code("*"), Code("/"), Code("="), Code("!"), Code("<"), Code(">") }

\* ( ) { } ;
PunctuatorChars == { Code("("), Code(")"), Code("{"), Code("}"), Code(";") }

ReservedWords ==
  { Str(<<"h", "i", "n", "d", "s", "a">>), Str(<<"a", "s", "h", "a", "r", "i", "a">>),
    Str(<<"a", "g", "a", "r">>), Str(<<"p", "h", "i", "r">>),
    Str(<<"l", "e", "k", "i", "n", "a", "g", "a", "r">>), Str(<<"j", "a", "b", "t", "k">>),
    Str(<<"n", "i", "k", "l", "o">>), Str(<<"w", "a", "p", "s", "i">>),
    Str(<<"i", "r", "s", "h", "a", "a", "d">>), Str(<<"c", "h", "a", "l", "o", "o", "o">>) }

\* s without the chars of the set drop.
Without(s, drop) == SelectSeq(s, LAMBDA c : c \notin drop)

\* The number of chars of the set cs among the first n chars of s.
CountIn(s, n, cs) == Cardinality({ i \in 1..n : s[i] \in cs })

\* The lexemes of the tokens, concatenated in order.
RECURSIVE Lexemes(_)
Lexemes(toks) == IF toks = << >> THEN << >> ELSE toks[1].value \o Lexemes(Tail(toks))

\* The kinds of the tokens, in order.
Kinds(toks) == [i \in 1..Len(toks) |-> toks[i].token_type]

\* The (kind, lexeme) pairs of the tokens, in order.
Pairs(toks) == [i \in 1..Len(toks) |-> << toks[i].token_type, toks[i].value >>]

\* The first index >= p (0-based) of s that holds no whitespace, Len(s) if none.
RECURSIVE SkipBlank(_, _)
SkipBlank(s, p) == IF p < Len(s) /\ s[p + 1] \in Whitespace THEN SkipBlank(s, p + 1) ELSE p

\* The index (0-based) of the first char of the k-th token: the lexemes lie in
\* the input in order, separated by whitespace only.
RECURSIVE FirstChar(_, _, _)
FirstChar(s, toks, k) ==
  SkipBlank(s, IF k = 1 THEN 0 ELSE FirstChar(s, toks, k - 1) + Len(toks[k - 1].value))

(***************************************************************************)
(* C1                                                                      *)
(***************************************************************************)

\* C1: tokenize never fails, whatever the input, multi-byte chars included:
\* the call never panics.
C1_NeverPanics == pc # "panicked"

\* What holds instead: a scan of an ASCII input never panics, and a scan of an
\* input with a multi-byte char never returns.
AsciiNeverPanics == IsAscii(input) => pc # "panicked"

NonAsciiNeverReturns == ~IsAscii(input) => pc # "returned"

(***************************************************************************)
(* C2                                                                      *)
(***************************************************************************)

\* C2: when tokenize returns on an ASCII input, the lexemes of the returned
\* tokens, concatenated in order, are the input with its whitespace removed.
C2_LexemesCoverInput ==
  (pc = "returned" /\ IsAscii(input)) => Lexemes(tokens) = Without(input, Whitespace)

\* A scan returned on an ASCII input with whitespace, several tokens, and a
\* two-character operator.
C2_Witness ==
  /\ pc = "returned"
  /\ IsAscii(input)
  /\ Len(tokens) >= 2
  /\ \E i \in 1..Len(input) : input[i] \in Whitespace
  /\ \E k \in 1..Len(tokens) : tokens[k].token_type = "Operator" /\ Len(tokens[k].value) = 2

(***************************************************************************)
(* C3                                                                      *)
(***************************************************************************)

\* C3: on an ASCII input, every token pushed so far lies in the input at its
\* first char, and its line is 1 + the number of newlines before that char.
C3_LineOfToken ==
  IsAscii(input) =>
    \A k \in 1..Len(tokens) :
      LET first == FirstChar(input, tokens, k)
      IN /\ SubSeq(input, first + 1, first + Len(tokens[k].value)) = tokens[k].value
         /\ tokens[k].line = 1 + CountIn(input, first, Newline)

\* "agar\nphir" scanned: agar on line 1, phir on line 2.
C3_Witness ==
  /\ input = Str(<<"a", "g", "a", "r">>) \o <<10>> \o Str(<<"p", "h", "i", "r">>)
  /\ pc = "returned"
  /\ Len(tokens) = 2
  /\ tokens[1].line = 1
  /\ tokens[2].line = 2

(***************************************************************************)
(* C4                                                                      *)
(***************************************************************************)

\* The longest run of chars of the set cs in s from index st (0-based).
RunFrom(s, st, cs) ==
  LET ks == { k \in 0..(Len(s) - st) : \A j \in 1..k : s[st + j] \in cs }
  IN SubSeq(s, st + 1, st + (CHOOSE k \in ks : \A m \in ks : m <= k))

\* Keyword for exactly the ten reserved words, Identifier otherwise.
KindOfWord(w) == IF w \in ReservedWords THEN "Keyword" ELSE "Identifier"

\* The main loop is at a char of the set cs.
CursorAt(cs) == pc = "tokenize" /\ position < Len(input) /\ input[position + 1] \in cs

\* From a letter the analyzer enters the word scan without a token, and the word
\* scan ends in exactly one token: the maximal run of letters and digits from
\* the letter, Keyword iff a reserved word, the cursor behind the run.
WordTokenStep ==
  /\ CursorAt(Letters) => pc' = "get_next_word" /\ start' = position /\ tokens' = tokens
  /\ pc = "get_next_word" =>
       \/ pc' = "get_next_word" /\ tokens' = tokens
       \/ LET run == RunFrom(input, start, Letters \cup Digits)
          IN /\ pc' = "tokenize"
             /\ tokens' = Append(tokens, Token(KindOfWord(run), run, line))
             /\ position' = start + Len(run)

\* C4: at an ASCII letter the analyzer emits exactly one token, the maximal run
\* of ASCII letters and digits from there, Keyword iff the run is one of the ten
\* reserved words and Identifier otherwise.
C4_WordToken == [][WordTokenStep]_vars

\* The same on ASCII inputs only.
C4_WordTokenAscii == [][IsAscii(input) => WordTokenStep]_vars

\* "agarx" is the single token Identifier("agarx"), "agar" the single Keyword.
C4_Agarx ==
  /\ (pc = "returned" /\ input = Str(<<"a", "g", "a", "r", "x">>)) =>
       Pairs(tokens) = << << "Identifier", Str(<<"a", "g", "a", "r", "x">>) >> >>
  /\ (pc = "returned" /\ input = Str(<<"a", "g", "a", "r">>)) =>
       Pairs(tokens) = << << "Keyword", Str(<<"a", "g", "a", "r">>) >> >>
  /\ (pc = "returned" /\ input = Str(<<"A", "g", "a", "r">>)) =>
       Pairs(tokens) = << << "Identifier", Str(<<"A", "g", "a", "r">>) >> >>

(***************************************************************************)
(* C5                                                                      *)
(***************************************************************************)

\* The longest run of digits and '.' in s from index st (0-based) with at most
\* one '.'.
NumberFrom(s, st) ==
  LET ks == { k \in 0..(Len(s) - st) :
                /\ \A j \in 1..k : s[st + j] \in Digits \cup {46}
                /\ Cardinality({ j \in 1..k : s[st + j] = 46 }) <= 1 }
  IN SubSeq(s, st + 1, st + (CHOOSE k \in ks : \A m \in ks : m <= k))

KindOfNumber(n) == IF \E i \in 1..Len(n) : n[i] = 46 THEN "FloatLiteral" ELSE "IntegerLiteral"

\* From a digit the analyzer enters the number scan without a token, and the
\* number scan ends in exactly one token: the maximal run of digits with at
\* most one '.', FloatLiteral iff it holds a '.', the cursor behind the run.
NumberTokenStep ==
  /\ CursorAt(Digits) => pc' = "get_next_number" /\ start' = position /\ tokens' = tokens
  /\ pc = "get_next_number" =>
       \/ pc' = "get_next_number" /\ tokens' = tokens
       \/ LET run == NumberFrom(input, start)
          IN /\ pc' = "tokenize"
             /\ tokens' = Append(tokens, Token(KindOfNumber(run), run, line))
             /\ position' = start + Len(run)

\* C5: at an ASCII digit the analyzer emits exactly one number token, the
\* maximal run of digits with at most one '.', FloatLiteral iff it holds a '.';
\* a trailing '.' is kept and a second '.' is left to the next dispatch.
C5_NumberToken == [][NumberTokenStep]_vars

\* The same on ASCII inputs only.
C5_NumberTokenAscii == [][IsAscii(input) => NumberTokenStep]_vars

\* "12." is FloatLiteral("12."); "3.14.5" is FloatLiteral("3.14"), Unknown("."),
\* IntegerLiteral("5").
C5_Examples ==
  /\ (pc = "returned" /\ input = Str(<<"1", "2", ".">>)) =>
       Pairs(tokens) = << << "FloatLiteral", Str(<<"1", "2", ".">>) >> >>
  /\ (pc = "returned" /\ input = Str(<<"3", ".", "1", "4", ".", "5">>)) =>
       Pairs(tokens) = << << "FloatLiteral", Str(<<"3", ".", "1", "4">>) >>,
                          << "Unknown", Str(<<".">>) >>,
                          << "IntegerLiteral", Str(<<"5">>) >> >>

(***************************************************************************)
(* C6                                                                      *)
(***************************************************************************)

\* The operator at index p (0-based) of s: with the next char if that is '='.
OperatorAt(s, p) ==
  IF p + 1 < Len(s) /\ s[p + 2] = Code("=") THEN << s[p + 1], s[p + 2] >> ELSE << s[p + 1] >>

\* From an operator char the analyzer consumes it without a token, and the
\* lookahead ends in exactly one Operator token, of two chars iff the next char
\* is '=', the cursor behind it.
OperatorTokenStep ==
  /\ CursorAt(OperatorChars) => pc' = "compound" /\ position' = position + 1 /\ tokens' = tokens
  /\ pc = "compound" =>
       LET lexeme == OperatorAt(input, position - 1)
       IN /\ pc' = "tokenize"
          /\ tokens' = Append(tokens, Token("Operator", lexeme, line))
          /\ position' = position - 1 + Len(lexeme)

\* C6: at one of + - * / = ! < > the analyzer emits exactly one Operator token:
\* the char with the next char if that is '=', else the char alone.
C6_OperatorToken == [][OperatorTokenStep]_vars

\* The same on ASCII inputs only.
C6_OperatorTokenAscii == [][IsAscii(input) => OperatorTokenStep]_vars

\* "===" is Operator("==") then Operator("=").
C6_Examples ==
  (pc = "returned" /\ input = Str(<<"=", "=", "=">>)) =>
    Pairs(tokens) = << << "Operator", Str(<<"=", "=">>) >>, << "Operator", Str(<<"=">>) >> >>

(***************************************************************************)
(* C7                                                                      *)
(***************************************************************************)

\* No token has an empty lexeme or a lexeme with a whitespace char.
NoBlankLexeme ==
  \A k \in 1..Len(tokens) :
    /\ tokens[k].value # << >>
    /\ \A i \in 1..Len(tokens[k].value) : tokens[k].value[i] \notin Whitespace

\* "  x   =  1  " returns Identifier("x"), Operator("="), IntegerLiteral("1").
BlankExample ==
  (pc = "returned" /\ input = Str(<<" ", " ", "x", " ", " ", " ", "=", " ", " ", "1", " ", " ">>)) =>
    Pairs(tokens) = << << "Identifier", Str(<<"x">>) >>, << "Operator", Str(<<"=">>) >>,
                       << "IntegerLiteral", Str(<<"1">>) >> >>

\* C7: on an ASCII input a whitespace char is consumed without a token, and no
\* token's lexeme holds a whitespace char; "  x   =  1  " yields three tokens.
C7_WhitespaceSilent ==
  [][ IsAscii(input) =>
        /\ CursorAt(Whitespace) => tokens' = tokens /\ position' = position + 1 /\ pc' = pc
        /\ NoBlankLexeme'
        /\ BlankExample' ]_vars

\* A scan returned with tokens on an ASCII input that holds a tab.
C7_Witness ==
  /\ pc = "returned"
  /\ IsAscii(input)
  /\ Len(tokens) >= 2
  /\ \E i \in 1..Len(input) : input[i] = 9

(***************************************************************************)
(* C8                                                                      *)
(***************************************************************************)

\* C8: "hindsa x = 10; asharia y = 20.5; agar (x > y) { niklo; }" returns 20
\* tokens of the kinds listed.
C8_EndToEnd ==
  (pc = "returned" /\ input = EndToEnd) =>
    /\ Len(tokens) = 20
    /\ Kinds(tokens) =
         << "Keyword", "Identifier", "Operator", "IntegerLiteral", "Punctuator",
            "Keyword", "Identifier", "Operator", "FloatLiteral", "Punctuator",
            "Keyword", "Punctuator", "Identifier", "Operator", "Identifier", "Punctuator",
            "Punctuator", "Keyword", "Punctuator", "Punctuator" >>

\* The scan of that input returned.
C8_Witness == pc = "returned" /\ input = EndToEnd /\ Len(tokens) > 0

(***************************************************************************)
(* C9                                                                      *)
(***************************************************************************)

\* C9: in every step of a scan, the helper scans and the lookahead included,
\* the cursor does not decrease and does not pass the end of the input, and the
\* line grows by the number of newlines the step consumes (and so by 0
\* when it consumes none).
C9_CursorAndLine ==
  [][ /\ position <= position'
      /\ position' <= Len(input)
      /\ position' <= len(input)
      /\ line' = line + Cardinality({ i \in (position + 1)..position' : input[i] \in Newline }) ]_vars

\* The lookahead at the end of the input, after a newline was consumed.
C9_Witness == pc = "compound" /\ position = Len(input) /\ line = 2

\* Inside the number scan, past a '.', on the second line.
C9_WitnessNumber == pc = "get_next_number" /\ has_decimal /\ position > start /\ line = 2

(***************************************************************************)
(* C10                                                                     *)
(***************************************************************************)

\* The ASCII chars of no class of the dispatch.
OtherAscii ==
  (0..127) \ (Whitespace \cup Letters \cup Digits \cup OperatorChars \cup PunctuatorChars)

\* "a_b" returns Identifier("a"), Unknown("_"), Identifier("b").
UnderscoreExample ==
  (pc = "returned" /\ input = Str(<<"a", "_", "b">>)) =>
    Pairs(tokens) = << << "Identifier", Str(<<"a">>) >>, << "Unknown", Str(<<"_">>) >>,
                       << "Identifier", Str(<<"b">>) >> >>

\* C10: at an ASCII char of no class the analyzer consumes that one char and
\* pushes one Unknown token of that char; no step removes a token.
C10_UnknownToken ==
  [][ /\ CursorAt(OtherAscii) =>
           /\ tokens' = Append(tokens, Token("Unknown", << input[position + 1] >>, line))
           /\ position' = position + 1
           /\ pc' = pc
      /\ SubSeq(tokens', 1, Len(tokens)) = tokens
      /\ UnderscoreExample' ]_vars

\* "a_b" scanned to the end, with the Unknown token of '_'.
C10_Witness ==
  /\ pc = "returned"
  /\ input = Str(<<"a", "_", "b">>)
  /\ Len(tokens) = 3
  /\ tokens[2] = Token("Unknown", Str(<<"_">>), 1)

(***************************************************************************)
(* C11                                                                     *)
(***************************************************************************)

\* "12abc" returns IntegerLiteral("12"), Identifier("abc"); "abc12" returns the
\* single Identifier("abc12").
DigitsLettersExample ==
  /\ (pc = "returned" /\ input = Str(<<"1", "2", "a", "b", "c">>)) =>
       Pairs(tokens) = << << "IntegerLiteral", Str(<<"1", "2">>) >>,
                          << "Identifier", Str(<<"a", "b", "c">>) >> >>
  /\ (pc = "returned" /\ input = Str(<<"a", "b", "c", "1", "2">>)) =>
       Pairs(tokens) = << << "Identifier", Str(<<"a", "b", "c", "1", "2">>) >> >>

\* The chars from index st to the cursor (0-based, the cursor excluded).
Scanned(st) == SubSeq(input, st + 1, position)

\* The dispatch looks at the char at the cursor only; a word scan that ends
\* has passed letters and digits only and stands at the end of the input or at
\* a char that is neither; a number scan that ends has passed digits and at
\* most one '.', and stands at the end, at a char that is neither digit nor
\* '.', or at a second '.'.
ScanStopStep ==
  /\ CursorAt(Letters) => pc' = "get_next_word"
  /\ CursorAt(Digits) => pc' = "get_next_number"
  /\ (pc = "get_next_word" /\ pc' = "tokenize") =>
       /\ position' = position
       /\ \A i \in 1..Len(Scanned(start)) : Scanned(start)[i] \in Letters \cup Digits
       /\ position = Len(input) \/ input[position + 1] \notin Letters \cup Digits
  /\ (pc = "get_next_number" /\ pc' = "tokenize") =>
       /\ position' = position
       /\ \A i \in 1..Len(Scanned(start)) : Scanned(start)[i] \in Digits \cup {46}
       /\ CountIn(Scanned(start), Len(Scanned(start)), {46}) <= 1
       /\ \/ position = Len(input)
          \/ input[position + 1] \notin Digits \cup {46}
          \/ input[position + 1] = 46 /\ CountIn(Scanned(start), Len(Scanned(start)), {46}) = 1

\* C11: word scan and number scan each stop at the first char outside their
\* class and the dispatch is decided by the char at the cursor alone: "12abc"
\* is a number then a word, "abc12" is one word.
C11_ScansStopAtClassEnd == [][ScanStopStep /\ DigitsLettersExample']_vars

\* "12abc" scanned to the end: the number, then the word.
C11_Witness ==
  /\ pc = "returned"
  /\ input = Str(<<"1", "2", "a", "b", "c">>)
  /\ Kinds(tokens) = << "IntegerLiteral", "Identifier" >>

(***************************************************************************)
(* C12                                                                     *)
(***************************************************************************)

\* The cursor at the head of the iteration of the main loop that is running.
IterationStart ==
  CASE pc \in {"get_next_word", "get_next_number"} -> start
    [] pc = "compound" -> position - Len(op)
    [] OTHER -> position

\* A step that ends an iteration of the main loop leaves the cursor at least 1
\* behind the head of that iteration, a step inside an iteration keeps the
\* head, and at the head of the loop no more iterations have begun than the
\* cursor has advanced.
IterationStep ==
  /\ (pc \notin {"returned", "panicked"} /\ pc' = "tokenize") => position' >= IterationStart + 1
  /\ pc' \in {"get_next_word", "get_next_number", "compound"} => IterationStart' = IterationStart
  /\ pc' \in {"tokenize", "returned"} => iterations' <= position'

\* A natural number that every step of a call makes smaller: three times the
\* chars left, plus 2 inside a scan or lookahead that has advanced, 1 at the
\* head of the main loop, 0 inside a scan that has just begun.
Measure ==
  IF pc \in {"returned", "panicked"} THEN 0
  ELSE 3 * (Len(input) - position)
       + (IF pc = "tokenize" THEN 1 ELSE IF IterationStart = position THEN 0 ELSE 2)

\* A call that has neither returned nor panicked has a next step.
NotStuck == pc \in {"returned", "panicked"} \/ ENABLED Next

\* The call does not panic, and when it has returned the cursor is at the end
\* of the input and no more iterations have begun than the input has chars.
EndsAtEnd ==
  /\ pc # "panicked"
  /\ pc = "returned" => position = Len(input) /\ iterations <= Len(input)

\* C12: every iteration of the main loop advances the cursor by at least 1, and
\* on an ASCII input of n chars the loop ends, after at most n iterations, with
\* the cursor at n.  Termination is stated by a measure: every step makes a
\* natural number smaller and an unfinished call always has a next step.
C12_LoopEnds ==
  /\ [][IterationStep /\ Measure' < Measure /\ Measure' >= 0]_vars
  /\ [](NotStuck /\ (IsAscii(input) => EndsAtEnd))

\* The same as a property of the fair behaviours: the scan of an ASCII input
\* eventually returns with the cursor at the end.
C12_EventuallyReturns ==
  IsAscii(input) => <>(pc = "returned" /\ position = Len(input) /\ iterations <= Len(input))

\* A scan of an ASCII input ended after as many iterations as the input has
\* chars, with all six branches of the dispatch possible.
C12_Witness ==
  /\ pc = "returned"
  /\ IsAscii(input)
  /\ Len(input) >= 3
  /\ position = Len(input)
  /\ iterations = Len(input)

\* A scan ended after fewer iterations than the input has chars.
C12_WitnessFewer == pc = "returned" /\ iterations > 0 /\ iterations < Len(input)

(***************************************************************************)
(* C13                                                                     *)
(***************************************************************************)

\* Starts with an ASCII letter, ASCII letters and digits only.
IdentifierShaped(w) ==
  /\ Len(w) > 0
  /\ w[1] \in Letters
  /\ \A i \in 1..Len(w) : w[i] \in Letters \cup Digits

\* The table holds the ten reserved words, each Keyword, each identifier-shaped.
KeywordTableOk ==
  /\ DOMAIN keywords = ReservedWords
  /\ Cardinality(DOMAIN keywords) = 10
  /\ \A w \in DOMAIN keywords : keywords[w] = "Keyword" /\ IdentifierShaped(w)

\* C13: the keyword table built by new holds exactly the ten reserved words,
\* each mapped to Keyword and identifier-shaped, and no step of tokenize changes
\* the table or the input.
C13_KeywordTableFixed ==
  /\ [](KeywordTableOk)
  /\ [][keywords' = keywords /\ input' = input]_vars

\* A scan that looked words up, with a hit and a miss, has returned; position,
\* line and tokens have changed.
C13_Witness ==
  /\ pc = "returned"
  /\ \E k \in 1..Len(tokens) : tokens[k].token_type = "Keyword"
  /\ \E k \in 1..Len(tokens) : tokens[k].token_type = "Identifier"
  /\ position > 0
  /\ line > 1

(***************************************************************************)
(* C14                                                                     *)
(***************************************************************************)

\* The first call on the analyzer ends as tokenize, the function, says: with
\* the same tokens, or with a panic.
FunctionAgrees ==
  calls = 1 =>
    /\ pc = "returned" => tokens = tokenize(input)
    /\ pc = "panicked" => tokenize(input) = Panicked

\* The input read as A, one space, B, for the space at index i (1-based).
PartA(i) == SubSeq(input, 1, i - 1)

PartB(i) == SubSeq(input, i + 1, Len(input))

\* C14: for ASCII A and B the scan of A, one space, B returns the (kind,
\* lexeme) pairs of the tokens of A followed by those of the tokens of B.
C14_NoModeAcrossTokens ==
  (pc = "returned" /\ IsAscii(input)) =>
    \A i \in 1..Len(input) :
      input[i] = 32 =>
        Pairs(tokens) = Pairs(tokenize(PartA(i))) \o Pairs(tokenize(PartB(i)))

\* A scan has returned on A, one space, B where A ends in a number with a '.'
\* and B is a number with a '.'.
C14_Witness ==
  /\ pc = "returned"
  /\ \E i \in 2..(Len(input) - 1) :
       /\ input[i] = 32
       /\ Kinds(tokenize(PartA(i))) = << "FloatLiteral" >>
       /\ Kinds(tokenize(PartB(i))) = << "FloatLiteral" >>
       /\ Kinds(tokens) = << "FloatLiteral", "FloatLiteral" >>

\* The same where A ends in an operator and B starts with '='.
C14_WitnessOperator ==
  /\ pc = "returned"
  /\ \E i \in 2..(Len(input) - 1) :
       /\ input[i] = 32
       /\ input[i - 1] \in OperatorChars
       /\ input[i + 1] = Code("=")
       /\ Len(tokens) >= 2

(***************************************************************************)
(* C15                                                                     *)
(***************************************************************************)

\* s holds neither '<' nor '>', and no char of + - * / = ! followed by '='.
Plain(s) ==
  /\ \A i \in 1..Len(s) : s[i] \notin { Code("<"), Code(">") }
  /\ \A i \in 1..(Len(s) - 1) :
       ~(s[i] \in { Code("+"), Code("-"), Code("*"), Code("/"), Code("="), Code("!") }
         /\ s[i + 1] = Code("="))

\* What the analyzer without the extended features emits for one (kind,
\* lexeme) pair: '<' and '>' are Unknown, and a two-character operator is its
\* first char followed by Operator("=").
SimplePair(c) == << (IF c \in { Code("<"), Code(">") } THEN "Unknown" ELSE "Operator"), << c >> >>

RECURSIVE Simplified(_)
Simplified(pairs) ==
  IF pairs = << >> THEN << >>
  ELSE LET kind == pairs[1][1]
           lexeme == pairs[1][2]
       IN (IF kind # "Operator" THEN << pairs[1] >>
           ELSE IF Len(lexeme) = 2 THEN << SimplePair(lexeme[1]), << "Operator", << lexeme[2] >> >> >>
           ELSE << SimplePair(lexeme[1]) >>)
          \o Simplified(Tail(pairs))

\* C15: on an ASCII input the two analyzers return the same (kind, lexeme)
\* pairs exactly when the input is plain, and on every ASCII input the result
\* of src/lexer.rs is that of src/compiler/src/lexer.rs with '<' and '>' turned
\* Unknown and every two-character operator split.
C15_VariantsAgree ==
  (pc = "returned" /\ IsAscii(input)) =>
    LET simple == Pairs(simple_tokenize(input))
    IN /\ Plain(input) <=> Pairs(tokens) = simple
       /\ simple = Simplified(Pairs(tokens))

\* A scan has returned on a plain input with an operator among several tokens.
C15_Witness ==
  /\ pc = "returned"
  /\ IsAscii(input)
  /\ Plain(input)
  /\ Len(tokens) >= 3
  /\ \E k \in 1..Len(tokens) : tokens[k].token_type = "Operator"

\* A scan has returned on an input with a two-character operator of '<' or '>'.
C15_WitnessExtended ==
  /\ pc = "returned"
  /\ \E k \in 1..Len(tokens) :
       /\ tokens[k].token_type = "Operator"
       /\ Len(tokens[k].value) = 2
       /\ tokens[k].value[1] \in { Code("<"), Code(">") }

(***************************************************************************)
(* C16                                                                     *)
(***************************************************************************)

\* The shape the lexeme of a token of each kind has.
ShapeOk(token_type, value) ==
  /\ Len(value) >= 1
  /\ CASE token_type \in { "Keyword", "Identifier" } ->
            /\ value[1] \in Letters
            /\ \A i \in 1..Len(value) : value[i] \in Letters \cup Digits
       [] token_type = "IntegerLiteral" ->
            \A i \in 1..Len(value) : value[i] \in Digits
       [] token_type = "FloatLiteral" ->
            /\ value[1] \in Digits
            /\ CountIn(value, Len(value), { Code(".") }) = 1
       [] token_type = "Operator" ->
            /\ Len(value) \in { 1, 2 }
            /\ value[1] \in OperatorChars
            /\ Len(value) = 2 => value[2] = Code("=")
       [] token_type = "Punctuator" ->
            Len(value) = 1 /\ value[1] \in PunctuatorChars
       [] token_type = "Unknown" ->
            Len(value) = 1
       [] OTHER -> FALSE

\* C16: every token ever appended to the output has a non-empty lexeme of the
\* shape of its kind.
C16_LexemeShapes ==
  \A k \in 1..Len(tokens) : ShapeOk(tokens[k].token_type, tokens[k].value)

\* The same for the tokens of ASCII inputs.
C16_LexemeShapesAscii ==
  IsAscii(input) => \A k \in 1..Len(tokens) : ShapeOk(tokens[k].token_type, tokens[k].value)

\* A float literal and a two-character operator are the output of a scan of
\* an ASCII input.
C16_AsciiKinds ==
  /\ IsAscii(input)
  /\ Len(tokens) = 2
  /\ \E k \in 1..Len(tokens) : tokens[k].token_type = "FloatLiteral"
  /\ \E k \in 1..Len(tokens) : tokens[k].token_type = "Operator" /\ Len(tokens[k].value) = 2

(***************************************************************************)
(* C17                                                                     *)
(***************************************************************************)

\* A step of a later call of tokenize, its entry included.
LaterCallStep == calls' >= 2 /\ IsAscii(input)

\* In a later call the cursor is at the end of the input, no token is in the
\* output, and the call is at its loop test, about to return, or has returned.
LaterCallIdle ==
  (calls >= 2 /\ IsAscii(input)) =>
    /\ position = Len(input)
    /\ tokens = << >>
    /\ pc \in { "tokenize", "returned" }
    /\ pc = "tokenize" => ENABLED Return

\* C17: after a call of tokenize on an ASCII input has returned, every later
\* call on the same analyzer returns an empty token sequence and leaves
\* position, equal to the input length, and line as they were.
C17_LaterCallsEmpty ==
  /\ [][LaterCallStep =>
          /\ position = Len(input)
          /\ position' = position
          /\ line' = line
          /\ tokens' = << >>]_vars
  /\ [](LaterCallIdle)

\* A second call has returned on an input of several lines that gave tokens.
C17_Witness ==
  /\ calls = 2
  /\ pc = "returned"
  /\ IsAscii(input)
  /\ line > 1
  /\ tokenize(input) # << >>

====
